---- MODULE Spec2Model ----
(***************************************************************************)
(* State-machine model of the TradeZero web-API helpers:                   *)
(*   Chrome.click_element            (tradezeroapi/igos_webdriver.py)      *)
(*   Portfolio._switch_portfolio_tab, get_active_orders,                   *)
(*   symbol_present_in_active_orders, cancel_active_order, portfolio,      *)
(*   invested                        (tradezeroapi/portfolio.py)           *)
(* The browser page is the environment: its tables and the outcome of      *)
(* every driver call (wait, locate, click) are chosen nondeterministically *)
(* among the outcomes selenium can produce.                                *)
(*                                                                         *)
(* Text is a sequence of one-character strings, so that str.upper,         *)
(* str.lower and str.replace are computed character by character.          *)
(***************************************************************************)
EXTENDS Naturals, Sequences, FiniteSets, TLC

VARIABLES
    table,      \* rows of the active-orders table aoTable-1, in DOM order
    selected,   \* the portfolio tab the page shows
    pc,         \* position of the running call ("idle": none is running)
    call,       \* the running (or last finished) top-level call and its arguments
    ret,        \* how the last top-level call ended, and its value
    ck,         \* locals and history of click_element
    gao,        \* locals of get_active_orders
    cn,         \* locals and history of cancel_active_order
    conv        \* filter of a cancel that returned normally, nothing placed since

vars == <<table, selected, pc, call, ret, ck, gao, cn, conv>>

-----------------------------------------------------------------------------
(* Bounds of the model *)

\* the active-orders table holds at most MaxRows rows
MaxRows == 2

\* the page adds or removes a row at most MaxPageChanges times during one call
MaxPageChanges == 2

\* the open-positions table holds at most MaxPositions rows
MaxPositions == 2
MaxInventoryRows == 2

-----------------------------------------------------------------------------
(* Program constants *)

\* igos_webdriver.py:31: for _ in range(3)
Retries == 3

-----------------------------------------------------------------------------
(* Text *)

AB == <<"A", "B">>
ab == <<"a", "b">>
CD == <<"C", "D">>

\* str.upper(), character by character
UpperChar(c) ==
    CASE c = "a" -> "A" [] c = "b" -> "B" [] c = "c" -> "C" [] c = "d" -> "D"
      [] c = "y" -> "Y" [] c = "n" -> "N" [] c = "o" -> "O" [] c = "p" -> "P"
      [] OTHER -> c

Upper(s) == [i \in 1..Len(s) |-> UpperChar(s[i])]

\* str.lower(), character by character
LowerChar(c) ==
    CASE c = "A" -> "a" [] c = "B" -> "b" [] c = "C" -> "c" [] c = "D" -> "d"
      [] c = "Y" -> "y" [] c = "N" -> "n" [] c = "O" -> "o" [] c = "P" -> "p"
      [] OTHER -> c

Lower(s) == [i \in 1..Len(s) |-> LowerChar(s[i])]

\* whether old occurs in s at position i
OccursAt(s, old, i) ==
    /\ i + Len(old) - 1 <= Len(s)
    /\ \A k \in 1..Len(old) : s[i + k - 1] = old[k]

\* str.replace(old, new): every non-overlapping occurrence, left to right
RECURSIVE ReplaceFrom(_, _, _, _)
ReplaceFrom(s, old, new, i) ==
    IF i > Len(s) THEN <<>>
    ELSE IF OccursAt(s, old, i)
         THEN new \o ReplaceFrom(s, old, new, i + Len(old))
         ELSE <<s[i]>> \o ReplaceFrom(s, old, new, i + 1)

Replace(s, old, new) == ReplaceFrom(s, old, new, 1)

\* Python truthiness of an optional str argument: None and '' are both falsy,
\* and both are written as the empty text
NoSymbol == <<>>
NoType == <<>>
Truthy(x) == Len(x) > 0

-----------------------------------------------------------------------------
(* enums.py *)

\* OrderType values used by the model
Limit == <<"L", "M", "T">>
Market == <<"M", "K", "T">>
OrderTypes == {Limit, Market}

\* PortfolioTab values
open_positions == "portfolio-tab-op-1"
closed_positions == "portfolio-tab-cp-1"
active_orders == "portfolio-tab-ao-1"
inactive_orders == "portfolio-tab-io-1"
PortfolioTab == {open_positions, closed_positions, active_orders, inactive_orders}

-----------------------------------------------------------------------------
(* The page *)

\* The orders the broker may show.  order_id is the tr's order-id attribute,
\* the other fields are cell texts.  Reference numbers carry the "S." prefix
\* and are not unique; an order-id is unique and opaque.
Order(oid, ref, sym, typ) ==
    [order_id |-> oid, ref_number |-> ref, symbol |-> sym, type |-> typ]

Orders == {
    Order(<<"7">>,           <<"S", ".", "1">>, AB, Limit),
    Order(<<"8">>,           <<"S", ".", "1">>, AB, Market),
    Order(<<"9">>,           <<"S", ".", "7">>, CD, Limit),
    Order(<<"S", ".", "7">>, <<"S", ".", "2">>, CD, Market) }

RECURSIVE SeqsOver(_, _)
\* the sequences of distinct elements of S, of length at most n
SeqsOver(S, n) ==
    IF n = 0 THEN {<<>>}
    ELSE LET shorter == SeqsOver(S, n - 1)
         IN  shorter \cup
             {Append(q, x) : q \in {r \in shorter : Len(r) = n - 1},
                             x \in S}

Range(q) == {q[i] : i \in 1..Len(q)}

NoDup(q) == \A i, j \in 1..Len(q) : i # j => q[i] # q[j]

Tables == {q \in SeqsOver(Orders, MaxRows) : NoDup(q)}

\* A tr of the table that has no order-id attribute: the XPath of line 196,
\* tr[@order-id], passes it over, and read_html of line 203 reads its cells
\* like those of any row.
NoOrderId == <<>>
BareRows == {Order(NoOrderId, <<"S", ".", "3">>, AB, Limit)}

TablesWithBareRows == {q \in SeqsOver(Orders \cup BareRows, MaxRows) : NoDup(q)}

\* the sequence q without its i-th element
RemoveAt(q, i) == SubSeq(q, 1, i - 1) \o SubSeq(q, i + 1, Len(q))

-----------------------------------------------------------------------------
(* Locators and what the page does with a click *)

\* (mutant) the locator of one fixed tab, whatever tab is asked for
TabLocatorFixed(tab) == [by |-> "css selector", value |-> "a#" \o "portfolio-tab-cp-1"]

\* _switch_portfolio_tab's locator: (By.CSS_SELECTOR, f"a#{tab.value}")
TabLocator(tab) == [by |-> "css selector", value |-> "a#" \o tab]

\* a locator of some other element of the page
ButtonLocator == [by |-> "id", value |-> "button"]

NoLocator == [by |-> "", value |-> ""]

\* the tab anchors a locator matches (the anchors are fixed elements of the page)
AnchorsAt(loc) == {t \in PortfolioTab : loc = [by |-> "css selector", value |-> "a#" \o t]}

\* Only an element that is no tab anchor can be missing from the page, or
\* leave it while a handle on it is held.
CanBeAbsent(loc) == AnchorsAt(loc) = {}

\* the tab shown after a click is delivered to the element at loc
SelectedAfterClick(loc, sel) ==
    IF AnchorsAt(loc) = {} THEN sel ELSE CHOOSE t \in AnchorsAt(loc) : TRUE

-----------------------------------------------------------------------------
(* Records of the running call *)

NoCall ==
    [op |-> "none", symbol |-> <<>>, type |-> <<>>, tab |-> "", before |-> "",
     page |-> <<>>, pageChanges |-> 0, repeat |-> FALSE, cancelled |-> FALSE,
     warnings |-> 0]

\* How the running call ended, and what it returned, by kind of value: a
\* frame or list of rows (value), a bool, None, or lists of cell texts (grid)
NoRet ==
    [status |-> "none", exc |-> "", value |-> <<>>, bool |-> FALSE,
     none |-> FALSE, grid |-> <<>>]

Returned(v) == [NoRet EXCEPT !.status = "returned", !.value = v]
ReturnedBool(b) == [NoRet EXCEPT !.status = "returned", !.bool = b]
ReturnedNone == [NoRet EXCEPT !.status = "returned", !.none = TRUE]
ReturnedGrid(g) == [NoRet EXCEPT !.status = "returned", !.grid = g]
Raised(e) == [NoRet EXCEPT !.status = "raised", !.exc = e]

\* click_element: its locator, whether `element` is bound, the index of the
\* retry loop, and what happened so far in this invocation (finds: the
\* find_element calls of the loop that returned; loopAttempts, loopDelivered:
\* the clicks of the loop and those of them that were delivered)
NoCk ==
    [loc |-> NoLocator, element |-> FALSE, i |-> 0,
     attempts |-> 0, delivered |-> 0, intercepted |-> 0, loopAttempts |-> 0,
     timedOut |-> FALSE, scrolledIntoView |-> 0, finds |-> 0,
     loopDelivered |-> 0]

NoGao == [symbol |-> <<>>, type |-> <<>>, order_ids |-> <<>>, page |-> <<>>]

\* cancel_active_order: ids_to_cancel, the loop position, the row the handle
\* cancel_button is on, and what happened so far in this invocation
NoCn ==
    [matched |-> <<>>, ids_to_cancel |-> <<>>, k |-> 0, cancel_button |-> <<>>,
     located |-> <<>>, outcomes |-> <<>>, clicked |-> <<>>, log |-> <<>>,
     queried |-> FALSE]

NoConv == [on |-> FALSE, symbol |-> <<>>, type |-> <<>>]

\* the top-level call ends
Finish(r) ==
    /\ pc' = "done"
    /\ ret' = r

\* The caller has the result and the locals of the call are gone.  What is
\* kept is which call it was, how it ended and whether it cancelled an order.
Return ==
    /\ pc = "done"
    /\ pc' = "idle"
    /\ call' = [NoCall EXCEPT !.op = call.op, !.symbol = call.symbol,
                              !.type = call.type, !.tab = call.tab,
                              !.cancelled = cn.clicked # <<>>]
    /\ ret' = [NoRet EXCEPT !.status = ret.status, !.exc = ret.exc]
    /\ ck' = NoCk /\ gao' = NoGao /\ cn' = NoCn
    /\ UNCHANGED <<table, selected, conv>>

-----------------------------------------------------------------------------
(* Chrome.click_element, igos_webdriver.py:12-39 *)

\* what follows click_element's normal return, its locals being c at that time
AfterClickElement(c) ==
    IF call.op = "cancel"
    THEN \* portfolio.py:246: df = self.get_active_orders(symbol, order_type)
         /\ pc' = "gao_find"
         /\ gao' = [NoGao EXCEPT !.symbol = Upper(call.symbol), !.type = call.type]
         /\ cn' = [cn EXCEPT !.log = Append(@, "tab")]
         /\ ck' = NoCk
         /\ UNCHANGED <<ret, conv>>
    ELSE /\ Finish(Returned(<<>>))
         /\ ck' = c
         /\ UNCHANGED <<gao, cn, conv>>

\* an exception leaves click_element: neither caller catches it
ClickElementRaises(e) ==
    /\ Finish(Raised(e))
    /\ conv' = NoConv
    /\ UNCHANGED <<gao, cn>>

\* line 16-18: the wait returns the element, found clickable
WaitClickable ==
    /\ pc = "ce_wait"
    /\ pc' = "ce_click"
    /\ ck' = [ck EXCEPT !.element = TRUE]
    /\ UNCHANGED <<table, selected, call, ret, gao, cn, conv>>

\* line 16, 28-29: the wait times out; the handler prints and control reaches
\* the retry loop of line 31
WaitTimeout ==
    /\ pc = "ce_wait"
    /\ pc' = "ce_find"
    /\ ck' = [ck EXCEPT !.timedOut = TRUE]
    /\ UNCHANGED <<table, selected, call, ret, gao, cn, conv>>

\* line 20-21: scrollIntoView, then the click is delivered
FirstClickDelivered ==
    /\ pc = "ce_click"
    /\ pc' = "ce_find"
    /\ ck' = [ck EXCEPT !.scrolledIntoView = @ + 1, !.attempts = @ + 1,
                        !.delivered = @ + 1]
    /\ selected' = SelectedAfterClick(ck.loc, selected)
    /\ UNCHANGED <<table, call, ret, gao, cn, conv>>

\* line 20-26: the click is intercepted; the handler scrolls and sleeps
FirstClickIntercepted ==
    /\ pc = "ce_click"
    /\ pc' = "ce_find"
    /\ ck' = [ck EXCEPT !.scrolledIntoView = @ + 2, !.attempts = @ + 1,
                        !.intercepted = @ + 1]
    /\ UNCHANGED <<table, selected, call, ret, gao, cn, conv>>

\* line 20-21: the element left the page since the wait returned it;
\* StaleElementReferenceException is caught by neither handler
FirstClickStale ==
    /\ pc = "ce_click"
    /\ CanBeAbsent(ck.loc)
    /\ ClickElementRaises("StaleElementReferenceException")
    /\ UNCHANGED <<table, selected, call, ck>>

\* line 31: range(3) is exhausted; the function returns
LoopExhausted ==
    /\ pc = "ce_find"
    /\ ck.i = Retries
    /\ AfterClickElement(ck)
    /\ UNCHANGED <<table, selected, call>>

\* line 33: find_element locates the element afresh
LoopFind ==
    /\ pc = "ce_find"
    /\ ck.i < Retries
    /\ pc' = "ce_retry"
    /\ ck' = [ck EXCEPT !.element = TRUE, !.finds = @ + 1]
    /\ UNCHANGED <<table, selected, call, ret, gao, cn, conv>>

\* line 33: no element matches; NoSuchElementException is not caught
LoopFindMissing ==
    /\ pc = "ce_find"
    /\ ck.i < Retries
    /\ CanBeAbsent(ck.loc)
    /\ ClickElementRaises("NoSuchElementException")
    /\ UNCHANGED <<table, selected, call, ck>>

\* (mutant) the loop goes on after a delivered click
LoopClickDeliveredNoBreak ==
    /\ pc = "ce_retry"
    /\ pc' = "ce_find"
    /\ selected' = SelectedAfterClick(ck.loc, selected)
    /\ ck' = [ck EXCEPT !.attempts = @ + 1, !.loopAttempts = @ + 1,
                        !.delivered = @ + 1, !.loopDelivered = @ + 1,
                        !.i = @ + 1]
    /\ UNCHANGED <<table, call, ret, gao, cn, conv>>

\* line 34-35: the click is delivered; break
LoopClickDelivered ==
    /\ pc = "ce_retry"
    /\ selected' = SelectedAfterClick(ck.loc, selected)
    /\ AfterClickElement([ck EXCEPT !.attempts = @ + 1, !.loopAttempts = @ + 1,
                                    !.delivered = @ + 1, !.loopDelivered = @ + 1])
    /\ UNCHANGED <<table, call>>

\* line 34, 36-39: the click is intercepted; scroll to the top, sleep, next round
LoopClickIntercepted ==
    /\ pc = "ce_retry"
    /\ pc' = "ce_find"
    /\ ck' = [ck EXCEPT !.attempts = @ + 1, !.loopAttempts = @ + 1,
                        !.intercepted = @ + 1, !.i = @ + 1]
    /\ UNCHANGED <<table, selected, call, ret, gao, cn, conv>>

\* line 34: the element left the page between find_element and click
LoopClickStale ==
    /\ pc = "ce_retry"
    /\ CanBeAbsent(ck.loc)
    /\ ClickElementRaises("StaleElementReferenceException")
    /\ UNCHANGED <<table, selected, call, ck>>

click_element ==
    \/ WaitClickable \/ WaitTimeout
    \/ FirstClickDelivered \/ FirstClickIntercepted \/ FirstClickStale
    \/ LoopExhausted \/ LoopFind \/ LoopFindMissing
    \/ LoopClickDelivered \/ LoopClickIntercepted \/ LoopClickStale

\* a caller invokes click_element on some element of the page
CallClick ==
    /\ pc = "idle"
    /\ pc' = "ce_wait"
    /\ call' = [NoCall EXCEPT !.op = "click"]
    /\ ck' = [NoCk EXCEPT !.loc = ButtonLocator]
    /\ ret' = NoRet /\ gao' = NoGao /\ cn' = NoCn /\ conv' = NoConv
    /\ UNCHANGED <<table, selected>>

-----------------------------------------------------------------------------
(* Portfolio._switch_portfolio_tab, portfolio.py:176-187 *)

CallSwitch ==
    \E tab \in PortfolioTab :
        /\ pc = "idle"
        /\ pc' = "ce_wait"
        /\ call' = [NoCall EXCEPT
                        !.op = "switch", !.tab = tab, !.before = selected,
                        !.repeat = /\ call.op = "switch" /\ call.tab = tab
                                   /\ ret.status = "returned"]
        /\ ck' = [NoCk EXCEPT !.loc = TabLocator(tab)]
        /\ ret' = NoRet /\ gao' = NoGao /\ cn' = NoCn /\ conv' = NoConv
        /\ UNCHANGED <<table, selected>>

-----------------------------------------------------------------------------
(* Portfolio.get_active_orders, portfolio.py:189-224 *)

\* Arguments the callers pass
SymbolArgs == {ab, AB, CD}
SymbolFilters == {NoSymbol, AB, CD}
TypeFilters == {NoType} \cup OrderTypes

\* line 196: the rows the XPath //*[@id="aoTable-1"]/tbody/tr[@order-id] selects
ActiveOrderRows(page) == SelectSeq(page, LAMBDA row : row.order_id # NoOrderId)

\* line 196, 201: the order-id attribute of every tr that carries one
OrderIdsOf(page) ==
    [i \in 1..Len(ActiveOrderRows(page)) |-> ActiveOrderRows(page)[i].order_id]

\* line 203-209: the cells of every row of the page source, and as column
\* order_id the i-th id read at line 201 (the lengths are equal)
BindOrderIds(page, order_ids) ==
    [i \in 1..Len(page) |-> [page[i] EXCEPT !.order_id = order_ids[i]]]

\* (mutant) the two filters combined by "or"
MatchesEither(row, symbol, order_type) ==
    \/ Truthy(symbol) /\ row.symbol = symbol
    \/ Truthy(order_type) /\ row.type = order_type
    \/ ~Truthy(symbol) /\ ~Truthy(order_type)

\* line 210-215: the filter, a conjunction
Matches(row, symbol, order_type) ==
    /\ Truthy(symbol) => row.symbol = symbol
    /\ Truthy(order_type) => row.type = order_type

\* line 216-224: the filtered frame, [] when it has no row
FilterOrders(df, symbol, order_type) ==
    LET Keep(row) == Matches(row, symbol, order_type)
    IN  SelectSeq(df, Keep)

\* line 250: [x.replace('S.', '') for x in ids_to_cancel]
IdsToCancel(df) ==
    [i \in 1..Len(df) |-> Replace(df[i].order_id, <<"S", ".">>, <<>>)]

\* (mutant) the early return of line 247-248 left out
NothingToCancelUnchecked(df) == FALSE

\* line 247: if len(df) == 0
NothingToCancel(df) == Len(df) = 0

\* what the caller does with the value v of get_active_orders
GaoReturns(v) ==
    CASE call.op = "orders" ->
            /\ Finish(Returned(v))
            /\ UNCHANGED <<cn, conv>>
      [] call.op = "present" ->
            \* line 233: [] has no column 'symbol': list indices must be integers
            /\ IF v = <<>>
               THEN Finish(Raised("TypeError"))
               ELSE Finish(ReturnedBool(
                        Upper(call.symbol) \in {v[i].symbol : i \in 1..Len(v)}))
            /\ UNCHANGED <<cn, conv>>
      [] call.op = "cancel" ->
            IF NothingToCancel(v)
            THEN \* line 247-248
                 /\ Finish(Returned(<<>>))
                 /\ cn' = [cn EXCEPT !.queried = TRUE, !.log = Append(@, "read")]
                 /\ UNCHANGED conv
            ELSE IF v = <<>>
            THEN \* line 249 on the list []: list indices must be integers
                 /\ Finish(Raised("TypeError"))
                 /\ cn' = [cn EXCEPT !.queried = TRUE, !.log = Append(@, "read")]
                 /\ conv' = NoConv
            ELSE \* line 249-252
                 /\ pc' = "cn_find"
                 /\ cn' = [cn EXCEPT !.queried = TRUE, !.log = Append(@, "read"),
                                     !.matched = v,
                                     !.ids_to_cancel = IdsToCancel(v), !.k = 1]
                 /\ UNCHANGED <<ret, conv>>

\* line 196-199: no row carries an order-id: warn and return []
GaoFindNone ==
    /\ pc = "gao_find"
    /\ Len(OrderIdsOf(table)) = 0
    /\ gao' = [gao EXCEPT !.page = table]
    /\ GaoReturns(<<>>)
    /\ UNCHANGED <<table, selected, call, ck>>

\* line 196, 201: the order ids are read off the rows
GaoFind ==
    /\ pc = "gao_find"
    /\ Len(OrderIdsOf(table)) > 0
    /\ pc' = "gao_read"
    /\ gao' = [gao EXCEPT !.order_ids = OrderIdsOf(table)]
    /\ cn' = IF call.op = "cancel" THEN [cn EXCEPT !.log = Append(@, "read")] ELSE cn
    /\ UNCHANGED <<table, selected, call, ret, ck, conv>>

\* line 203-224: the page source is read and parsed, the ids are bound to its
\* rows, the frame is filtered and returned
GaoRead ==
    /\ pc = "gao_read"
    /\ Len(table) = Len(gao.order_ids)
    /\ gao' = [gao EXCEPT !.page = table]
    /\ GaoReturns(FilterOrders(BindOrderIds(table, gao.order_ids),
                               gao.symbol, gao.type))
    /\ UNCHANGED <<table, selected, call, ck>>

\* line 209: the page changed between the two reads and the frame has not as
\* many rows as ids were read: pandas raises ValueError
GaoReadMismatch ==
    /\ pc = "gao_read"
    /\ Len(table) # Len(gao.order_ids)
    /\ Finish(Raised("ValueError"))
    /\ gao' = [gao EXCEPT !.page = table]
    /\ conv' = NoConv
    /\ UNCHANGED <<table, selected, call, ck, cn>>

get_active_orders == GaoFindNone \/ GaoFind \/ GaoRead \/ GaoReadMismatch

CallOrders ==
    \E symbol \in SymbolFilters, order_type \in TypeFilters :
        /\ pc = "idle"
        /\ pc' = "gao_find"
        /\ call' = [NoCall EXCEPT !.op = "orders", !.symbol = symbol,
                                  !.type = order_type]
        /\ gao' = [NoGao EXCEPT !.symbol = symbol, !.type = order_type]
        /\ conv' = IF /\ call.op = "cancel" /\ ret.status = "returned"
                      /\ conv = [on |-> TRUE, symbol |-> symbol, type |-> order_type]
                   THEN conv ELSE NoConv
        /\ ret' = NoRet /\ ck' = NoCk /\ cn' = NoCn
        /\ UNCHANGED <<table, selected>>

-----------------------------------------------------------------------------
(* Portfolio.symbol_present_in_active_orders, portfolio.py:226-233 *)

CallPresent ==
    \E symbol \in SymbolArgs :
        /\ pc = "idle"
        /\ pc' = "gao_find"
        /\ call' = [NoCall EXCEPT !.op = "present", !.symbol = symbol]
        /\ gao' = NoGao
        /\ ret' = NoRet /\ ck' = NoCk /\ cn' = NoCn /\ conv' = NoConv
        /\ UNCHANGED <<table, selected>>

-----------------------------------------------------------------------------
(* Portfolio.cancel_active_order, portfolio.py:235-269 *)

\* (mutant) the table is read without the switch to the active-orders tab
CallCancelWithoutSwitch ==
    \E symbol \in SymbolArgs, order_type \in TypeFilters :
        /\ pc = "idle"
        /\ pc' = "gao_find"
        /\ call' = [NoCall EXCEPT !.op = "cancel", !.symbol = symbol,
                                  !.type = order_type]
        /\ gao' = [NoGao EXCEPT !.symbol = Upper(symbol), !.type = order_type]
        /\ conv' = [on |-> TRUE, symbol |-> symbol, type |-> order_type]
        /\ ret' = NoRet /\ ck' = NoCk /\ cn' = NoCn
        /\ UNCHANGED <<table, selected>>

\* line 243-244: upper-case the symbol, switch to the active-orders tab
CallCancel ==
    \E symbol \in SymbolArgs, order_type \in TypeFilters :
        /\ pc = "idle"
        /\ pc' = "ce_wait"
        /\ call' = [NoCall EXCEPT
                        !.op = "cancel", !.symbol = symbol, !.type = order_type,
                        !.repeat = /\ call.op = "cancel" /\ call.symbol = symbol
                                   /\ call.type = order_type
                                   /\ ret.status = "returned"
                                   /\ call.cancelled]
        /\ ck' = [NoCk EXCEPT !.loc = TabLocator(active_orders)]
        /\ conv' = [on |-> TRUE, symbol |-> symbol, type |-> order_type]
        /\ ret' = NoRet /\ gao' = NoGao /\ cn' = NoCn
        /\ UNCHANGED <<table, selected>>

\* the rows of the page the XPath of line 256 selects for a key
RowsWithOrderId(page, order_id) ==
    SelectSeq(page, LAMBDA row : row.order_id = order_id)

\* the loop goes to its next key, or line 269 sleeps and the call returns
NextKey(c) ==
    /\ cn' = [c EXCEPT !.k = @ + 1]
    /\ IF c.k + 1 > Len(c.ids_to_cancel)
       THEN Finish(Returned(<<>>))
       ELSE pc' = "cn_find" /\ UNCHANGED ret

\* line 256-258: find_element returns the CANCEL cell of the first such row
CnFind ==
    /\ pc = "cn_find"
    /\ RowsWithOrderId(table, cn.ids_to_cancel[cn.k]) # <<>>
    /\ pc' = "cn_click"
    /\ cn' = [cn EXCEPT
                !.cancel_button = Head(RowsWithOrderId(table, cn.ids_to_cancel[cn.k])),
                !.located = Append(@, cn.ids_to_cancel[cn.k]),
                !.log = Append(@, "find")]
    /\ UNCHANGED <<table, selected, call, ret, ck, gao, conv>>

\* (mutant) NoSuchElementException is not caught
CnFindMissingUncaught ==
    /\ pc = "cn_find"
    /\ RowsWithOrderId(table, cn.ids_to_cancel[cn.k]) = <<>>
    /\ Finish(Raised("NoSuchElementException"))
    /\ cn' = [cn EXCEPT !.located = Append(@, cn.ids_to_cancel[cn.k]),
                        !.outcomes = Append(@, "missing"),
                        !.log = Append(@, "find")]
    /\ conv' = NoConv
    /\ UNCHANGED <<table, selected, call, ck, gao>>

\* line 260-262: NoSuchElementException: print and continue
CnFindMissing ==
    /\ pc = "cn_find"
    /\ RowsWithOrderId(table, cn.ids_to_cancel[cn.k]) = <<>>
    /\ NextKey([cn EXCEPT !.located = Append(@, cn.ids_to_cancel[cn.k]),
                          !.outcomes = Append(@, "missing"),
                          !.log = Append(@, "find")])
    /\ UNCHANGED <<table, selected, call, ck, gao, conv>>

\* line 264: the click is delivered, and the page cancels the order of that row
CnClickDelivered ==
    /\ pc = "cn_click"
    /\ cn.cancel_button \in Range(table)
    /\ table' = SelectSeq(table, LAMBDA row : row # cn.cancel_button)
    /\ NextKey([cn EXCEPT !.outcomes = Append(@, "clicked"),
                          !.clicked = Append(@, cn.cancel_button),
                          !.log = Append(@, "click")])
    /\ UNCHANGED <<selected, call, ck, gao, conv>>

\* line 264-267: the row was re-rendered or removed since it was located:
\* StaleElementReferenceException: print and continue
CnClickStale ==
    /\ pc = "cn_click"
    /\ NextKey([cn EXCEPT !.outcomes = Append(@, "stale"),
                          !.log = Append(@, "click")])
    /\ UNCHANGED <<table, selected, call, ck, gao, conv>>

\* line 264: another element receives the click;
\* ElementClickInterceptedException is not caught
CnClickIntercepted ==
    /\ pc = "cn_click"
    /\ cn.cancel_button \in Range(table)
    /\ Finish(Raised("ElementClickInterceptedException"))
    /\ cn' = [cn EXCEPT !.outcomes = Append(@, "intercepted"),
                        !.log = Append(@, "click")]
    /\ conv' = NoConv
    /\ UNCHANGED <<table, selected, call, ck, gao>>

cancel_active_order ==
    \/ CnFind \/ CnFindMissing
    \/ CnClickDelivered \/ CnClickStale \/ CnClickIntercepted

-----------------------------------------------------------------------------
(* Portfolio.portfolio and Portfolio.invested, portfolio.py:30-55, 163-174 *)

\* the text the page shows in place of positions, and the text line 44 compares
NoPositionsShown ==
    <<"Y", "o", "u", " ", "h", "a", "v", "e", " ", "n", "o", " ", "o", "p", "e", "n",
      " ", "p", "o", "s", "i", "t", "i", "o", "n", "s", ".">>
NoPositionsText ==
    <<"y", "o", "u", " ", "h", "a", "v", "e", " ", "n", "o", " ", "o", "p", "e", "n",
      " ", "p", "o", "s", "i", "t", "i", "o", "n", "s", ".">>

\* a row of opTable-1: its first cell and its last
Position(sym, overnight) == [symbol |-> sym, overnight |-> overnight]

Positions == {Position(sym, o) : sym \in {AB, CD}, o \in {"Yes", "No"}}

\* The pages of open positions: no row, the one-cell row that says there is
\* none, or rows of positions, one per symbol.
PositionPages ==
    {<<>>, <<Position(NoPositionsShown, "")>>, <<Position(NoPositionsText, "")>>}
    \cup {q \in SeqsOver(Positions, MaxPositions) :
            /\ Len(q) > 0
            /\ \A i, j \in 1..Len(q) : i # j => q[i].symbol # q[j].symbol}

\* line 41-46: None when the table has no row or its first cell is the notice
PortfolioIsNone(page) ==
    Len(page) = 0 \/ Lower(page[1].symbol) = NoPositionsText

\* line 48-54: the rows keyed by symbol
PortfolioKeys(page) == {page[i].symbol : i \in 1..Len(page)}

\* line 42: pd.read_html(...)[0], outside any try block and before the test of
\* line 44.  A table without a row gives pandas nothing to parse (the
\* docstring, line 35-36: "if the portfolio is empty Pandas won't be able to
\* locate the table"): read_html raises ValueError when it finds no table with
\* text, and otherwise leaves the empty table out of the list it returns, so
\* that [0] raises IndexError.
ReadHtmlRaises(page) == Len(page) = 0
ReadHtmlErrors == {"ValueError", "IndexError"}

\* line 44-55: what portfolio() returns once line 42 has returned a frame:
\* None, or the rows under the column names of line 48-51
portfolio(page) == IF PortfolioIsNone(page) THEN ReturnedNone ELSE Returned(page)

\* line 45: warnings.warn('Portfolio is empty'), how many times
PortfolioWarnings(page) == IF PortfolioIsNone(page) THEN 1 ELSE 0

\* line 170-174
invested(page, symbol) ==
    IF PortfolioIsNone(page) THEN FALSE ELSE Upper(symbol) \in PortfolioKeys(page)

\* A method whose first statement is self.portfolio(), called on the page as
\* it is then; r is how the method ends when portfolio() returns.
PortfolioThen(op, symbol, page, r) ==
    /\ pc = "idle"
    /\ call' = [NoCall EXCEPT
                    !.op = op, !.symbol = symbol, !.page = page,
                    !.warnings = IF ReadHtmlRaises(page) THEN 0
                                 ELSE PortfolioWarnings(page)]
    /\ IF ReadHtmlRaises(page)
       THEN \E e \in ReadHtmlErrors : Finish(Raised(e))
       ELSE Finish(r)
    /\ ck' = NoCk /\ gao' = NoGao /\ cn' = NoCn /\ conv' = NoConv
    /\ UNCHANGED <<table, selected>>

\* line 154-161: an empty frame when portfolio() is None, else the rows whose
\* overnight cell is not 'Yes'
open_orders(page) ==
    IF PortfolioIsNone(page) THEN <<>>
    ELSE SelectSeq(page, LAMBDA row : row.overnight # "Yes")

\* a call of portfolio()
CallPortfolio ==
    \E page \in PositionPages :
        PortfolioThen("portfolio", NoSymbol, page, portfolio(page))

\* a call of invested(symbol)
CallInvested ==
    \E page \in PositionPages, symbol \in SymbolArgs :
        PortfolioThen("invested", symbol, page,
                      ReturnedBool(invested(page, symbol)))

\* a call of open_orders()
CallOpenOrders ==
    \E page \in PositionPages :
        PortfolioThen("open_orders", NoSymbol, page, Returned(open_orders(page)))

-----------------------------------------------------------------------------
(* Portfolio.get_inventory, portfolio.py:103-146 *)

\* line 123
headers == <<"Symbol", "Type", "Available", "Unavailable", "Action">>

\* The cells a row of locate-inventory-table may have: the five columns the
\* headers name, the button being the fifth, or one cell more.
InventoryWidths == {5, 6}
HeaderTexts == headers \o <<"Note">>
DataTexts(sym) == <<sym, "Locate", "100", "0", "LOCATE", "note">>

\* a tr of the table: the texts of its td cells and of its th cells
InventoryRow(td, th) == [td |-> td, th |-> th]

\* the rows the table may show: rows of data, the header row, a tr without cells
InventoryRows ==
    {InventoryRow(SubSeq(DataTexts(sym), 1, n), <<>>) :
        sym \in {"AB", "CD"}, n \in InventoryWidths}
    \cup {InventoryRow(<<>>, SubSeq(HeaderTexts, 1, n)) : n \in InventoryWidths}
    \cup {InventoryRow(<<>>, <<>>)}

InventoryTables == SeqsOver(InventoryRows, MaxInventoryRows)

\* line 131-134: the td cells of the row, and its th cells when it has no td
CellsOfRow(row) == IF Len(row.td) = 0 THEN row.th ELSE row.td

\* line 136: [cell.text for idx, cell in enumerate(cells) if idx != 4]
RowData(cells) ==
    LET keep == SelectSeq([i \in 1..Len(cells) |-> i], LAMBDA i : i - 1 # 4)
    IN  [k \in 1..Len(keep) |-> cells[keep[k]]]

\* line 126-141: the data of every row, the empty lists taken out
AllRowData(rows) ==
    SelectSeq([i \in 1..Len(rows) |-> RowData(CellsOfRow(rows[i]))],
              LAMBDA row_data : Len(row_data) > 0)

\* the value None in a cell of a frame
None == "None"

\* the length of the longest list of data
Widest(data) ==
    IF Len(data) = 0 THEN 0
    ELSE CHOOSE n \in {Len(data[i]) : i \in 1..Len(data)} :
            \A i \in 1..Len(data) : Len(data[i]) <= n

\* line 144, pd.DataFrame(data, columns=columns) on a list of lists: pandas
\* fills the shorter lists with None up to the longest, and raises ValueError
\* ("5 columns passed, passed data had 4 columns") when the longest has not
\* as many entries as there are column names; no list at all is an empty frame
DataFrameRaises(data, columns) ==
    Len(data) > 0 /\ Widest(data) # Len(columns)

DataFrame(data, columns) ==
    [i \in 1..Len(data) |->
        [k \in 1..Len(columns) |->
            IF k <= Len(data[i]) THEN data[i][k] ELSE None]]

\* line 117-146
get_inventory(rows) == DataFrame(AllRowData(rows), headers)

\* a call of get_inventory() on the table as it is then
CallInventory ==
    \E rows \in InventoryTables :
        /\ pc = "idle"
        /\ call' = [NoCall EXCEPT !.op = "inventory", !.page = rows]
        /\ IF DataFrameRaises(AllRowData(rows), headers)
           THEN Finish(Raised("ValueError"))
           ELSE Finish(ReturnedGrid(get_inventory(rows)))
        /\ ck' = NoCk /\ gao' = NoGao /\ cn' = NoCn /\ conv' = NoConv
        /\ UNCHANGED <<table, selected>>

-----------------------------------------------------------------------------
(* The live page *)

\* The page changes on its own while a call is between its first read of the
\* table and its last use of it.  (A change before the first read is the same
\* as the call starting on the changed page.)
PageMayChange ==
    /\ pc \in {"gao_read", "cn_find", "cn_click"}
    /\ call.pageChanges < MaxPageChanges

\* an order is placed from elsewhere: a row is added to the table
EnvPlace ==
    \E order \in Orders \ Range(table) :
        /\ PageMayChange
        /\ Len(table) < MaxRows
        /\ table' = Append(table, order)
        /\ call' = [call EXCEPT !.pageChanges = @ + 1]
        /\ conv' = NoConv
        /\ UNCHANGED <<selected, pc, ret, ck, gao, cn>>

\* an order is filled or cancelled from elsewhere: its row leaves the table
EnvRemove ==
    \E i \in 1..Len(table) :
        /\ PageMayChange
        /\ table' = RemoveAt(table, i)
        /\ call' = [call EXCEPT !.pageChanges = @ + 1]
        /\ UNCHANGED <<selected, pc, ret, ck, gao, cn, conv>>

-----------------------------------------------------------------------------
(* The specification *)

Init ==
    /\ table \in Tables
    /\ selected \in PortfolioTab
    /\ pc = "idle"
    /\ call = NoCall
    /\ ret = NoRet
    /\ ck = NoCk
    /\ gao = NoGao
    /\ cn = NoCn
    /\ conv = NoConv

Next ==
    \/ CallClick \/ CallSwitch \/ CallOrders \/ CallPresent \/ CallCancel
    \/ Return
    \/ click_element
    \/ get_active_orders
    \/ cancel_active_order
    \/ EnvPlace \/ EnvRemove

Spec == Init /\ [][Next]_vars

\* click_element and its callers alone.  The method is straight-line code in
\* the one thread of its caller, and each of its steps ends by itself: the
\* wait of line 16 is over after max_wait seconds, the sleeps of lines 26 and
\* 39 after one second, and the driver answers find_element, click and
\* execute_script.  So a step of click_element that stays possible is taken.
ClickNext == CallClick \/ CallSwitch \/ Return \/ click_element

ClickSpec == Init /\ [][ClickNext]_vars /\ WF_vars(click_element)

\* The methods that read a table of the page in one step and touch nothing:
\* portfolio, invested and open_orders on opTable-1, get_inventory on
\* locate-inventory-table.  The table of active orders and the tab shown play
\* no part in them.
ReadNext ==
    \/ CallPortfolio \/ CallInvested \/ CallOpenOrders \/ CallInventory
    \/ Return

ReadSpec == Init /\ [][ReadNext]_vars

\* get_active_orders on pages that may show a row without an order-id
BareRowInit ==
    /\ table \in TablesWithBareRows
    /\ selected \in PortfolioTab
    /\ pc = "idle"
    /\ call = NoCall
    /\ ret = NoRet
    /\ ck = NoCk
    /\ gao = NoGao
    /\ cn = NoCn
    /\ conv = NoConv

OrdersNext == CallOrders \/ Return \/ get_active_orders \/ EnvPlace \/ EnvRemove

BareRowSpec == BareRowInit /\ [][OrdersNext]_vars

-----------------------------------------------------------------------------
(* Properties *)

Done(op) == pc = "done" /\ call.op = op

\* the cells of a row, without the order id
Cells(row) == [ref_number |-> row.ref_number, symbol |-> row.symbol, type |-> row.type]

\* the position of the row of page that shows these cells
RowIndex(page, cells) == CHOOSE i \in 1..Len(page) : Cells(page[i]) = cells

\* C1: cancel_active_order(S, T) returned normally, no order was placed from
\* elsewhere since it was called, and get_active_orders(S, T) is called next:
\* that call returns the empty sequence.
C1_CancelThenNoActiveOrders ==
    (Done("orders") /\ conv.on) => (ret.status = "returned" /\ ret.value = <<>>)

\* C2: in the loop of cancel_active_order a missing or stale CANCEL cell never
\* ends the call: no NoSuchElementException or StaleElementReferenceException
\* leaves the loop, every key up to the current one has been looked up, and a
\* call in which no click was intercepted returns normally with every key
\* looked up.
C2_MissingOrStaleNeverAborts ==
    call.op = "cancel" =>
        /\ (ret.status = "raised" /\ cn.ids_to_cancel # <<>>) =>
               ret.exc \notin {"NoSuchElementException", "StaleElementReferenceException"}
        /\ pc = "cn_find" => Len(cn.located) = cn.k - 1
        /\ pc = "cn_click" => Len(cn.located) = cn.k
        /\ (pc = "done" /\ cn.ids_to_cancel # <<>>
                /\ "intercepted" \notin Range(cn.outcomes)) =>
               (ret.status = "returned" /\ cn.located = cn.ids_to_cancel)

\* C2 (witness): a call returned normally after a key's CANCEL cell was missing
\* or stale and a later key was still looked up.
C2_Witness ==
    /\ Done("cancel") /\ ret.status = "returned"
    /\ Len(cn.outcomes) >= 2
    /\ cn.outcomes[1] \in {"missing", "stale"}
    /\ cn.located = cn.ids_to_cancel

\* C3: every click cancel_active_order(S, T) delivers lands on a row whose
\* order-id is the order-id of a row get_active_orders(S, T) returned to it,
\* and that row matches S and T.
C3_OnlyMatchingOrdersClicked ==
    call.op = "cancel" =>
        \A i \in 1..Len(cn.clicked) :
            /\ cn.clicked[i].order_id \in
                   {cn.matched[j].order_id : j \in 1..Len(cn.matched)}
            /\ cn.clicked[i].symbol = Upper(call.symbol)
            /\ call.type # NoType => cn.clicked[i].type = call.type

\* C4: click_element returns normally whenever its wait timed out or a click
\* of it was intercepted, and when every click it attempted was intercepted
\* none was delivered.
C4_ClickReturnsOnTimeoutOrInterception ==
    Done("click") =>
        /\ (ck.timedOut \/ ck.intercepted > 0) => ret.status = "returned"
        /\ (ck.attempts > 0 /\ ck.intercepted = ck.attempts) => ck.delivered = 0

\* C5: when get_active_orders gives cancel_active_order no row, the call
\* returns normally at once: no CANCEL cell is looked up or clicked and the
\* table is as it was read.
C5_CancelNothingIsNoOp ==
    (call.op = "cancel" /\ cn.queried /\ cn.matched = <<>>) =>
        /\ pc = "done" /\ ret.status = "returned"
        /\ cn.located = <<>> /\ cn.clicked = <<>> /\ cn.outcomes = <<>>
        /\ \A i \in 1..Len(cn.log) : cn.log[i] \notin {"find", "click"}
        /\ table = gao.page

\* C5 (witness): the second of two calls with the same filter, the first of
\* which cancelled an order, finds nothing to cancel.
C5_Witness ==
    /\ Done("cancel") /\ call.repeat
    /\ cn.queried /\ cn.matched = <<>> /\ ret.status = "returned"

\* C6: in one call of cancel_active_order the switch to the active-orders tab
\* comes before every read of the table, and a read of the table comes before
\* every lookup or click of a CANCEL cell.
C6_SwitchThenReadThenClick ==
    call.op = "cancel" =>
        \A i \in 1..Len(cn.log) :
            /\ cn.log[i] = "read" => \E j \in 1..(i - 1) : cn.log[j] = "tab"
            /\ cn.log[i] \in {"find", "click"} =>
                   \E j \in 1..(i - 1) : cn.log[j] = "read"

\* C6 (witness): a call that switched, read and clicked.
C6_Witness ==
    /\ Done("cancel")
    /\ \E i, j, k \in 1..Len(cn.log) :
           i < j /\ j < k /\ cn.log[i] = "tab" /\ cn.log[j] = "read" /\ cn.log[k] = "click"

C8_PresentIsBooleanOfTable ==
    Done("present") =>
        /\ ret.status = "returned"
        /\ ret.bool = (\E i \in 1..Len(gao.page) : gao.page[i].symbol = Upper(call.symbol))

\* C9: what get_active_orders(symbol, type) returns shows exactly the rows of
\* the table whose symbol is the symbol filter (when given) and whose type is
\* the type filter (when given), in the order of the table; it is empty when
\* no row is such.
C9_ActiveOrdersFiltered ==
    (Done("orders") /\ ret.status = "returned") =>
        LET Wanted(row) ==
                /\ call.symbol # NoSymbol => row.symbol = call.symbol
                /\ call.type # NoType => row.type = call.type
            shown == {Cells(ret.value[i]) : i \in 1..Len(ret.value)}
        IN  /\ shown = {Cells(gao.page[i]) : i \in {k \in 1..Len(gao.page) : Wanted(gao.page[k])}}
            /\ Cardinality(shown) = Len(ret.value)
            /\ \A i, j \in 1..Len(ret.value) :
                   i < j => RowIndex(gao.page, Cells(ret.value[i]))
                                < RowIndex(gao.page, Cells(ret.value[j]))

\* C9 (witness): both filters given, a table of two rows, one of them returned.
C9_Witness ==
    /\ Done("orders") /\ ret.status = "returned"
    /\ call.symbol # NoSymbol /\ call.type # NoType
    /\ Len(gao.page) = 2 /\ Len(ret.value) = 1

\* C10: invested(symbol) raises nothing and is true exactly when the table of
\* open positions has a row, its first cell is not the no-positions notice,
\* and the upper-cased symbol is the symbol of a row; it is false for a symbol
\* that no row shows.
C10_InvestedIffRowShown ==
    Done("invested") =>
        LET shown == \E i \in 1..Len(call.page) : call.page[i].symbol = Upper(call.symbol)
            empty == \/ call.page = <<>>
                     \/ call.page[1].symbol \in {NoPositionsShown, NoPositionsText}
        IN  /\ ret.status = "returned"
            /\ ret.bool = (~empty /\ shown)
            /\ ~shown => ret.bool = FALSE

\* C11: when the table of open positions has no row, or its first cell reads
\* the no-positions notice in whatever casing, portfolio() raises nothing,
\* returns None and warns exactly once.
C11_EmptyPortfolioIsNone ==
    (Done("portfolio")
        /\ (\/ Len(call.page) = 0
            \/ Lower(call.page[1].symbol) = Lower(NoPositionsShown))) =>
        /\ ret.status = "returned"
        /\ ret.none
        /\ call.warnings = 1

\* C12: open_orders() raises nothing and returns a sequence: the empty one when
\* the table of open positions has no row or shows the no-positions notice,
\* and otherwise the rows of the table that are not overnight, in the order of
\* the table, so never more rows than the table has.
C12_OpenOrdersAreIntradayPositions ==
    Done("open_orders") =>
        LET page == call.page
            empty == \/ Len(page) = 0
                     \/ Lower(page[1].symbol) = Lower(NoPositionsShown)
            intraday == {i \in 1..Len(page) : page[i].overnight = "No"}
        IN  /\ ret.status = "returned"
            /\ empty => ret.value = <<>>
            /\ ~empty =>
                   /\ Len(ret.value) = Cardinality(intraday)
                   /\ Len(ret.value) <= Len(page)
                   /\ Range(ret.value) = {page[i] : i \in intraday}
                   /\ \A i, j \in 1..Len(ret.value) :
                          i < j => \E m, n \in intraday :
                                      /\ m < n
                                      /\ page[m] = ret.value[i]
                                      /\ page[n] = ret.value[j]

\* C13: when a click of cancel_active_order on the CANCEL cell of a matched
\* order is intercepted, the call still returns normally and every key has
\* been looked up.
C13_InterceptedCancelClickAbsorbed ==
    (Done("cancel") /\ "intercepted" \in Range(cn.outcomes)) =>
        /\ ret.status = "returned"
        /\ cn.located = cn.ids_to_cancel

\* click_element is running
InClickElement == pc \in {"ce_wait", "ce_click", "ce_find", "ce_retry"}

\* the history of the retry loop of click_element, at any moment
RetryLoopBounded ==
    /\ ck.i <= Retries
    /\ ck.loopAttempts <= Retries
    /\ ck.attempts <= Retries + 1
    \* every click of the loop follows a find_element of its own iteration
    /\ ck.loopAttempts <= ck.finds /\ ck.finds <= ck.loopAttempts + 1
    /\ pc = "ce_find" => ck.finds = ck.loopAttempts
    /\ pc = "ce_retry" => ck.finds = ck.loopAttempts + 1
    \* a delivered click of the loop is its last
    /\ ck.loopDelivered <= 1
    /\ ck.loopAttempts = ck.i + ck.loopDelivered
    /\ InClickElement => ck.loopDelivered = 0

\* C14: the retry loop of click_element clicks at most 3 times, each time on
\* the element find_element returned in that iteration, and stops with the
\* first click that is delivered; click_element clicks at most 4 times in all,
\* and every call of it comes to an end.
C14_RetryLoopBoundedAndEnds ==
    /\ []RetryLoopBounded
    /\ (InClickElement ~> pc = "done")

\* C14 (witness): a call ended after the first click and three clicks of the
\* loop, all intercepted.
C14_Witness ==
    /\ Done("click")
    /\ ck.loopAttempts = Retries /\ ck.attempts = Retries + 1
    /\ ck.finds = Retries /\ ck.intercepted = Retries + 1

\* C15: a call of click_element whose wait timed out raises nothing, scrolls
\* the element into view and attempts a click.
C15_TimeoutStillScrollsAndClicks ==
    (Done("click") /\ ck.timedOut) =>
        /\ ret.status = "returned"
        /\ ck.scrolledIntoView > 0
        /\ ck.attempts > 0

\* C18: in a call of click_element at most one click is delivered to the
\* element.
C18_AtMostOneDeliveredClick ==
    call.op \in {"click", "switch"} => ck.delivered <= 1

\* C16: whenever the table get_active_orders reads has a row without an
\* order-id, be it one row of several or every row, the call fails; and every
\* row it returns carries an order-id.
C16_RowWithoutOrderIdIsAnError ==
    Done("orders") =>
        /\ (\E i \in 1..Len(gao.page) : gao.page[i].order_id = NoOrderId) =>
               ret.status = "raised"
        /\ ret.status = "returned" =>
               \A i \in 1..Len(ret.value) : ret.value[i].order_id # NoOrderId

\* C19: when the page added or removed a row between the two reads of
\* get_active_orders, every row the call returns is a row of the page as the
\* second read saw it: its cells together with that row's own order-id.
C19_OrderIdOfTheSameRow ==
    (Done("orders") /\ ret.status = "returned" /\ call.pageChanges > 0) =>
        \A i \in 1..Len(ret.value) : ret.value[i] \in Range(gao.page)

\* C17: get_inventory() raises nothing and returns one record for every row of
\* the table that has td cells, in the order of the table, each the texts of
\* the row's cells without the fifth, so one field fewer than the row has
\* cells; a row of th cells and a row without cells give no record, and a
\* table without a row of td cells gives the empty sequence.
C17_InventoryIsTheDataRows ==
    Done("inventory") =>
        LET data == SelectSeq(call.page, LAMBDA row : Len(row.td) > 0)
        IN  /\ ret.status = "returned"
            /\ Len(ret.grid) = Len(data)
            /\ \A i \in 1..Len(data) :
                   /\ Len(ret.grid[i]) = Len(data[i].td) - 1
                   /\ \A k \in 1..Len(ret.grid[i]) :
                          ret.grid[i][k] = data[i].td[IF k <= 4 THEN k ELSE k + 1]

====
